---- MODULE Spec2Model ----
(***************************************************************************)
(* Agent coordination memory store of chilihead-opsmanager-unified.        *)
(*                                                                         *)
(* The store is the agent_memory table (server/models.py) reached through  *)
(* SQLAlchemy sessions.  AgentMemoryService (services/agent_memory.py)     *)
(* writes, reads and resolves records; MemoryManager                       *)
(* (services/memory_manager.py) runs the retention operations.             *)
(*                                                                         *)
(* A session keeps an identity map: a row that the session has already     *)
(* loaded is handed back with the attribute values it was loaded with,     *)
(* until the session expires it (expire_all, commit) or the object is      *)
(* garbage collected (the identity map holds weak references).             *)
(*                                                                         *)
(* Text is modelled as a sequence of words; substring tests are decided    *)
(* word by word through CsContains / Lower.  Time is counted in minutes.   *)
(***************************************************************************)
EXTENDS Integers, Sequences, FiniteSets, TLC

VARIABLES
    db,        \* agent_memory table: id -> row, for the rows that exist
    nextId,    \* ids handed out so far + 1 (generate_uuid never repeats)
    clock,     \* wall clock, minutes
    cache,     \* cache[s]: identity map of session s, id -> loaded attributes
    op,        \* op[s]: the handler session s is in the middle of
    orm,       \* whether the deployed AgentMemory class maps the columns of
               \* the add_memory_resolution migration (models.py does not)
    zone,      \* minutes the local clock of the host (database and
               \* datetime.now()) is ahead of UTC (datetime.utcnow())
    obs        \* the call that completed last, its arguments and its result

vars == <<db, nextId, clock, cache, op, orm, zone, obs>>

(***************************************************************************)
(* Bounds of the model.                                                    *)
(***************************************************************************)
MaxRecords == 3      \* rows ever inserted, one session at a time
MaxShared == 2       \* rows ever inserted, two sessions interleaved
MaxNotes == 2        \* annotations one record collects through annotate_memory
Horizon == 11520     \* minutes of wall clock explored (8 days)

Sessions == {"A", "B"}

NoneVal == "None"    \* Python None / SQL NULL, for text columns
NoTime == 0 - 1      \* SQL NULL, for timestamp columns

(***************************************************************************)
(* Text.                                                                   *)
(***************************************************************************)
ResolvedTag == "[RESOLVED]"

\* str.lower() on the words of the model
Lower(w) ==
    CASE w = "Pedro" -> "pedro"
      [] w = "PEDRO" -> "pedro"
      [] w = "Payroll" -> "payroll"
      [] w = "PAYROLL" -> "payroll"
      [] w = "[RESOLVED]" -> "[resolved]"
      [] w = "RESOLVED" -> "resolved"
      [] w = "Covered" -> "covered"
      [] OTHER -> w

\* needle in word, case-sensitive (Python's `in` on str)
CsContains(word, needle) ==
    \/ needle = ""
    \/ needle = word
    \/ needle = "RESOLVED" /\ word = "[RESOLVED]"
    \/ needle = "resolved" /\ word = "[resolved]"
    \/ needle = "urgent" /\ word = "urgent_items"
    \/ needle = "pay" /\ word = "payroll"

\* needle in text, case-sensitive
TextContains(text, needle) ==
    \/ needle = ""
    \/ \E i \in 1..Len(text) : CsContains(text[i], needle)

\* column ILIKE '%pattern%'.  The pattern is pasted between the two "%"
\* unescaped: LIKE reads a "%" in it as any run of characters and a "_" as
\* any one character.
ILike(text, pattern) ==
    \/ pattern = ""
    \/ pattern = "%"
    \/ pattern = "_" /\ text # <<>>
    \/ \E i \in 1..Len(text) : CsContains(Lower(text[i]), Lower(pattern))

\* f"[RESOLVED] {summary}"
PrefixResolved(summary) == <<ResolvedTag>> \o summary

\* "[RESOLVED]" in summary
HasResolvedTag(summary) == TextContains(summary, ResolvedTag)

\* number of [RESOLVED] markers in a summary
RECURSIVE TagCount(_)
TagCount(summary) ==
    IF summary = <<>> THEN 0
    ELSE (IF Head(summary) = ResolvedTag THEN 1 ELSE 0) + TagCount(Tail(summary))

(***************************************************************************)
(* Clocks.  created_at is a DateTime without time zone stamped by the      *)
(* database (func.now()); AgentMemoryService computes its cutoffs from     *)
(* datetime.now(), MemoryManager from datetime.utcnow().                   *)
(***************************************************************************)
DbNow == clock
LocalNow == clock
UtcNow == clock - zone

MinutesPerHour == 60
LookbackDays == 7
Timedelta(days, hours) == (days * 24 + hours) * MinutesPerHour

\* hosts on UTC and on US Eastern time (the deployment's America/Detroit)
Zones == {0, 0 - 5 * MinutesPerHour}

(***************************************************************************)
(* Python dicts (the JSON columns) are functions from keys to values.      *)
(***************************************************************************)
EmptyDict == [k \in {} |-> <<>>]

DictSet(d, key, value) ==
    [k \in (DOMAIN d) \cup {key} |-> IF k = key THEN value ELSE d[k]]

\* `not d` for a dict
DictFalsy(d) == DOMAIN d = {}

\* context_data['annotations'], [] when the key is absent
Annotations(context_data) ==
    IF "annotations" \in DOMAIN context_data
    THEN context_data["annotations"]
    ELSE <<>>

(***************************************************************************)
(* Sequences.                                                              *)
(***************************************************************************)
Min(a, b) == IF a <= b THEN a ELSE b

\* seq[:n]
Take(seq, n) == SubSeq(seq, 1, Min(n, Len(seq)))

Range(seq) == {seq[i] : i \in 1..Len(seq)}

\* the ids of a list of rows or objects
IdsOf(seq) == {seq[i].id : i \in 1..Len(seq)}

(***************************************************************************)
(* The agent_memory table.                                                 *)
(***************************************************************************)
\* ORDER BY created_at ASC over the rows `ids` of table `t`.  now() has
\* microsecond resolution: rows stamped within the same minute of the model
\* keep the order of their insertion, which is the order of their ids.
RECURSIVE OrderAsc(_, _)
OrderAsc(t, ids) ==
    IF ids = {} THEN <<>>
    ELSE LET first == CHOOSE x \in ids : \A y \in ids :
                          \/ t[x].created_at < t[y].created_at
                          \/ t[x].created_at = t[y].created_at /\ x <= y
         IN <<first>> \o OrderAsc(t, ids \ {first})

\* ORDER BY created_at DESC
RECURSIVE OrderDesc(_, _)
OrderDesc(t, ids) ==
    IF ids = {} THEN <<>>
    ELSE LET first == CHOOSE x \in ids : \A y \in ids :
                          \/ t[x].created_at > t[y].created_at
                          \/ t[x].created_at = t[y].created_at /\ x >= y
         IN <<first>> \o OrderDesc(t, ids \ {first})

\* AgentMemory(...) with the column defaults of models.py and of the
\* add_memory_resolution migration
NewRow(id, in, now) ==
    [id |-> id,
     agent_type |-> in.agent_type,
     event_type |-> in.event_type,
     summary |-> in.summary,
     context_data |-> in.context_data,
     key_findings |-> in.key_findings,
     related_entities |-> EmptyDict,
     session_id |-> in.session_id,
     email_id |-> in.email_id,
     task_id |-> in.task_id,
     delegation_id |-> NoneVal,
     model_used |-> in.model_used,
     confidence_score |-> in.confidence_score,
     created_at |-> now,
     updated_at |-> NoTime,
     is_resolved |-> FALSE,
     resolution_timestamp |-> NoTime,
     resolution_reason |-> <<>>]

(***************************************************************************)
(* Sessions.                                                               *)
(***************************************************************************)
NoCache == [k \in {} |-> <<>>]

Idle == [kind |-> "idle", ids |-> {}]

\* Query.all(): the rows `ids` come back as the session's objects; a row
\* the identity map already holds keeps the attributes it was loaded with
Loaded(s, ids) ==
    [id \in (DOMAIN cache[s]) \cup ids |->
        IF id \in DOMAIN cache[s] THEN cache[s][id] ELSE db[id]]

\* the objects of session s for the rows of `order`
Objects(identityMap, order) == [i \in 1..Len(order) |-> identityMap[order[i]]]

NoObs == [call |-> "none", s |-> "A", args |-> EmptyDict, result |-> <<>>, count |-> 0]

(***************************************************************************)
(* Inputs the callers pass.                                                *)
(***************************************************************************)
\* the triage worker (ai_triage.py), the digest generator
\* (smart_assistant.py) and the tests: what they hand to record_event
EventInputs ==
    { [agent_type |-> "triage", event_type |-> "email_analyzed",
       summary |-> <<"Pedro", "shift">>,
       context_data |-> [email_subject |-> <<"Pedro", "Covered">>],
       key_findings |-> [urgent_items |-> <<"Pedro">>],
       session_id |-> NoneVal, email_id |-> "e1", task_id |-> NoneVal,
       model_used |-> "gpt-4o", confidence_score |-> 85],
      [agent_type |-> "daily_brief", event_type |-> "digest_generated",
       summary |-> <<"Pedro", "gap">>,
       context_data |-> EmptyDict,
       key_findings |-> EmptyDict,
       session_id |-> "run1", email_id |-> NoneVal, task_id |-> "t1",
       model_used |-> "gpt-4o", confidence_score |-> 90],
      [agent_type |-> "triage", event_type |-> "email_analyzed",
       summary |-> <<"Payroll">>,
       context_data |-> EmptyDict,
       key_findings |-> [deadlines |-> <<"Friday">>],
       session_id |-> "run1", email_id |-> "e1", task_id |-> NoneVal,
       model_used |-> "gpt-4o", confidence_score |-> 70] }

\* the triage worker on an e-mail whose subject starts with "[RESOLVED]", as
\* the notifications of a ticket system do: summary = priority + subject[:60]
TicketInput ==
    [agent_type |-> "triage", event_type |-> "email_analyzed",
     summary |-> <<"[RESOLVED]", "Ticket">>,
     context_data |-> [email_subject |-> <<"[RESOLVED]", "Ticket">>],
     key_findings |-> EmptyDict,
     session_id |-> NoneVal, email_id |-> "e2", task_id |-> NoneVal,
     model_used |-> "gpt-4o", confidence_score |-> 85]

WriteInputs == EventInputs \cup {TicketInput}

AgentFilters == {NoneVal, "triage"}
HoursArgs == {24, 48}
Topics == {"PEDRO", "payroll"}
Notes == {"n1", "n2"}

\* limit=100 of get_coordination_context and the [:10] of its text branch,
\* scaled down together with MaxRecords so that both caps can bind
ContextLimit == 3
TopPerAgent == 2

(***************************************************************************)
(* Init                                                                    *)
(***************************************************************************)
Init ==
    /\ db = NoCache
    /\ nextId = 1
    /\ clock = 0
    /\ cache = [s \in Sessions |-> NoCache]
    /\ op = [s \in Sessions |-> Idle]
    /\ orm \in BOOLEAN
    /\ zone \in Zones
    /\ obs = NoObs

AllIdle == \A s \in Sessions : op[s] = Idle

Observe(call, s, args, result, count) ==
    [call |-> call, s |-> s, args |-> args, result |-> result, count |-> count]

(***************************************************************************)
(* AgentMemoryService.record_event                                         *)
(***************************************************************************)
\* db.add; db.commit (which expires the session's objects); db.refresh
RecordEvent(s, in, max) ==
    /\ op[s] = Idle
    /\ nextId <= max
    /\ LET row == NewRow(nextId, in, DbNow)
       IN /\ db' = [id \in (DOMAIN db) \cup {nextId} |->
                        IF id = nextId THEN row ELSE db[id]]
          /\ cache' = [cache EXCEPT ![s] = [id \in {nextId} |-> row]]
          /\ obs' = Observe("record_event", s, in, <<row>>, 1)
    /\ nextId' = nextId + 1
    /\ UNCHANGED <<clock, op, orm, zone>>

\* db.commit() raises (the INSERT is refused or the database cannot be
\* reached): db.rollback() ends the transaction, which expires the
\* session's objects, and the exception goes on to the caller
RecordEventFails(s, in) ==
    /\ op[s] = Idle
    /\ cache' = [cache EXCEPT ![s] = NoCache]
    /\ obs' = Observe("record_event", s, in, <<>>, 0)
    /\ UNCHANGED <<db, nextId, clock, op, orm, zone>>

(***************************************************************************)
(* AgentMemoryService.get_recent_context                                   *)
(***************************************************************************)
\* RecentOrder with the ORDER BY turned around: the limit keeps the oldest
RecentOrderOldest(agent_type, hours, limit) ==
    LET cutoff == LocalNow - Timedelta(0, hours)
        ids == {id \in DOMAIN db :
                   /\ db[id].created_at >= cutoff
                   /\ (agent_type # NoneVal => db[id].agent_type = agent_type)}
    IN Take(OrderAsc(db, ids), limit)

\* the rows the query selects, in its order
RecentOrder(agent_type, hours, limit) ==
    LET cutoff == LocalNow - Timedelta(0, hours)
        ids == {id \in DOMAIN db :
                   /\ db[id].created_at >= cutoff
                   /\ (agent_type # NoneVal => db[id].agent_type = agent_type)}
    IN Take(OrderDesc(db, ids), limit)

\* db.expire_all() and then the query: every object returned is loaded anew
RecentMap(order) == [id \in Range(order) |-> db[id]]

\* get_recent_context that also drops the rows older than its cutoff
GetRecentContextPruning(s, agent_type, hours, limit) ==
    /\ op[s] = Idle
    /\ LET order == RecentOrder(agent_type, hours, limit)
           map == RecentMap(order)
       IN /\ cache' = [cache EXCEPT ![s] = map]
          /\ obs' = Observe("recent", s,
                            [agent_type |-> agent_type, hours |-> hours, limit |-> limit],
                            Objects(map, order), Len(order))
    /\ db' = [id \in {k \in DOMAIN db :
                         db[k].created_at >= LocalNow - Timedelta(0, hours)} |-> db[id]]
    /\ UNCHANGED <<nextId, clock, op, orm, zone>>

GetRecentContext(s, agent_type, hours, limit) ==
    /\ op[s] = Idle
    /\ LET order == RecentOrder(agent_type, hours, limit)
           map == RecentMap(order)
       IN /\ cache' = [cache EXCEPT ![s] = map]
          /\ obs' = Observe("recent", s,
                            [agent_type |-> agent_type, hours |-> hours, limit |-> limit],
                            Objects(map, order), Len(order))
    /\ UNCHANGED <<db, nextId, clock, op, orm, zone>>

(***************************************************************************)
(* AgentMemoryService.get_related_memory                                   *)
(***************************************************************************)
\* RelatedOrder with and_ in the place of or_
RelatedOrderAll(email_id, task_id, delegation_id) ==
    LET ids == {id \in DOMAIN db :
                   /\ email_id # NoneVal \/ task_id # NoneVal \/ delegation_id # NoneVal
                   /\ email_id # NoneVal => db[id].email_id = email_id
                   /\ task_id # NoneVal => db[id].task_id = task_id
                   /\ delegation_id # NoneVal => db[id].delegation_id = delegation_id}
    IN OrderAsc(db, ids)

RelatedOrder(email_id, task_id, delegation_id) ==
    LET ids == {id \in DOMAIN db :
                   \/ email_id # NoneVal /\ db[id].email_id = email_id
                   \/ task_id # NoneVal /\ db[id].task_id = task_id
                   \/ delegation_id # NoneVal /\ db[id].delegation_id = delegation_id}
    IN OrderAsc(db, ids)

\* no expire_all here: the query runs against the identity map as it is
RelatedMap(s, order) == Loaded(s, Range(order))

GetRelatedMemory(s, email_id, task_id, delegation_id) ==
    /\ op[s] = Idle
    /\ LET order == RelatedOrder(email_id, task_id, delegation_id)
           map == RelatedMap(s, order)
       IN /\ cache' = [cache EXCEPT ![s] = map]
          /\ obs' = Observe("related", s,
                            [email_id |-> email_id, task_id |-> task_id,
                             delegation_id |-> delegation_id],
                            Objects(map, order), Len(order))
    /\ UNCHANGED <<db, nextId, clock, op, orm, zone>>

(***************************************************************************)
(* AgentMemoryService.search_memory                                        *)
(***************************************************************************)
SearchOrder(query_text, agent_type, limit) ==
    LET ids == {id \in DOMAIN db :
                   /\ (agent_type # NoneVal => db[id].agent_type = agent_type)
                   /\ ILike(db[id].summary, query_text)}
    IN Take(OrderDesc(db, ids), limit)

SearchMap(s, order) == Loaded(s, Range(order))

SearchMemory(s, query_text, agent_type, limit) ==
    /\ op[s] = Idle
    /\ LET order == SearchOrder(query_text, agent_type, limit)
           map == SearchMap(s, order)
       IN /\ cache' = [cache EXCEPT ![s] = map]
          /\ obs' = Observe("search", s,
                            [query_text |-> query_text, agent_type |-> agent_type,
                             limit |-> limit],
                            Objects(map, order), Len(order))
    /\ UNCHANGED <<db, nextId, clock, op, orm, zone>>

(***************************************************************************)
(* The clock and the garbage collector.                                    *)
(***************************************************************************)
Jumps == {Timedelta(3, 0), Timedelta(LookbackDays + 1, 0)}

Tick(d) ==
    /\ AllIdle
    /\ clock + d <= Horizon
    /\ clock' = clock + d
    /\ obs' = NoObs
    /\ UNCHANGED <<db, nextId, cache, op, orm, zone>>

\* the identity map holds weak references: an object nobody refers to any
\* more is dropped, and the next query loads its row anew
Collect(s, id) ==
    /\ id \in DOMAIN cache[s]
    /\ id \notin op[s].ids
    /\ cache' = [cache EXCEPT ![s] = [k \in (DOMAIN cache[s]) \ {id} |-> cache[s][k]]]
    /\ obs' = NoObs
    /\ UNCHANGED <<db, nextId, clock, op, orm, zone>>

(***************************************************************************)
(* AgentMemoryService.get_coordination_context                             *)
(***************************************************************************)
\* the agent types of `mems` in order of first appearance (the keys of the
\* by_agent dict, which keeps insertion order)
RECURSIVE AgentsInOrder(_, _)
AgentsInOrder(mems, seen) ==
    IF mems = <<>> THEN <<>>
    ELSE IF Head(mems).agent_type \in seen
         THEN AgentsInOrder(Tail(mems), seen)
         ELSE <<Head(mems).agent_type>>
              \o AgentsInOrder(Tail(mems), seen \cup {Head(mems).agent_type})

\* the lines of one memory in the text format
ItemLines(mem) ==
    LET cd == mem.context_data
        note == IF ~DictFalsy(cd) /\ "annotations" \in DOMAIN cd
                THEN cd["annotations"][Len(cd["annotations"])].note
                ELSE NoneVal
        kf == mem.key_findings
        urgent == IF "urgent_items" \in DOMAIN kf /\ kf["urgent_items"] # <<>>
                  THEN <<[kind |-> "urgent", id |-> mem.id,
                          items |-> Take(kf["urgent_items"], 2)]>>
                  ELSE <<>>
        deadlines == IF "deadlines" \in DOMAIN kf /\ kf["deadlines"] # <<>>
                     THEN <<[kind |-> "deadlines", id |-> mem.id,
                             n |-> Len(kf["deadlines"])]>>
                     ELSE <<>>
    IN <<[kind |-> "item", id |-> mem.id, time |-> mem.created_at,
          summary |-> mem.summary, note |-> note]>> \o urgent \o deadlines

RECURSIVE GroupLines(_)
GroupLines(mems) ==
    IF mems = <<>> THEN <<>>
    ELSE ItemLines(Head(mems)) \o GroupLines(Tail(mems))

\* AgentBlocks without the [:10]
RECURSIVE AgentBlocksUncapped(_, _)
AgentBlocksUncapped(agents, mems) ==
    IF agents = <<>> THEN <<>>
    ELSE LET mine == SelectSeq(mems, LAMBDA m : m.agent_type = Head(agents))
         IN <<[kind |-> "agent", agent |-> Head(agents)]>>
            \o GroupLines(mine)
            \o AgentBlocksUncapped(Tail(agents), mems)

RECURSIVE AgentBlocks(_, _)
AgentBlocks(agents, mems) ==
    IF agents = <<>> THEN <<>>
    ELSE LET mine == SelectSeq(mems, LAMBDA m : m.agent_type = Head(agents))
         IN <<[kind |-> "agent", agent |-> Head(agents)]>>
            \o GroupLines(Take(mine, TopPerAgent))
            \o AgentBlocks(Tail(agents), mems)

RenderText(hours, mems) ==
    <<[kind |-> "header", hours |-> hours]>>
    \o AgentBlocks(AgentsInOrder(mems, {}), mems)

RenderJson(mems) ==
    [i \in 1..Len(mems) |->
        [kind |-> "item", id |-> mems[i].id,
         agent |-> mems[i].agent_type, event |-> mems[i].event_type,
         summary |-> mems[i].summary, time |-> mems[i].created_at,
         findings |-> mems[i].key_findings,
         resolved |-> HasResolvedTag(mems[i].summary)]]

\* ContextFilter without the filter
ContextFilterNone(memories, include_resolved) == memories

\* [m for m in memories if "[RESOLVED]" not in m.summary]
ContextFilter(memories, include_resolved) ==
    IF include_resolved THEN memories
    ELSE SelectSeq(memories, LAMBDA m : ~HasResolvedTag(m.summary))

GetCoordinationContext(s, hours, format, include_resolved) ==
    /\ op[s] = Idle
    /\ LET order == RecentOrder(NoneVal, hours, ContextLimit)
           map == RecentMap(order)
           memories == ContextFilter(Objects(map, order), include_resolved)
       IN /\ cache' = [cache EXCEPT ![s] = map]
          /\ obs' = Observe("build_context", s,
                            [hours |-> hours, format |-> format,
                             include_resolved |-> include_resolved],
                            IF format = "json" THEN RenderJson(memories)
                            ELSE RenderText(hours, memories),
                            Len(memories))
    /\ UNCHANGED <<db, nextId, clock, op, orm, zone>>

\* the records a digest shows
Shown(digest) == {digest[i].id : i \in {j \in 1..Len(digest) : digest[j].kind = "item"}}

(***************************************************************************)
(* AgentMemoryService.mark_resolved                                        *)
(***************************************************************************)
\* the query of lines 383-396
MarkSelection(email_id, summary_text) ==
    LET cutoff == LocalNow - Timedelta(LookbackDays, 0)
    IN {id \in DOMAIN db :
           /\ IF email_id # NoneVal THEN db[id].email_id = email_id
              ELSE ILike(db[id].summary, summary_text)
           /\ db[id].created_at >= cutoff}

\* the annotation appended to context_data['annotations']
Annotation(note, status) == [timestamp |-> LocalNow, note |-> note, status |-> status]

\* context_data after the append
Annotated(context_data, note, status) ==
    DictSet(context_data, "annotations",
            Append(Annotations(context_data), Annotation(note, status)))

\* The JSON column is a plain dict: the unit of work sees a change of
\* context_data only when the attribute was assigned (`mem.context_data =
\* {}`, the branch taken for a falsy dict), never the append made in place.
ContextTracked(mem) == DictFalsy(mem.context_data)

\* the loop of lines 399-422 on one object of the session
MarkOne(mem, note) ==
    [summary |-> PrefixResolved(mem.summary),
     context_data |-> Annotated(mem.context_data, note, "resolved"),
     tracked |-> ContextTracked(mem)]

\* the objects the loop does not skip
MarkTargets(s, ids) == {id \in ids : ~HasResolvedTag(cache[s][id].summary)}

\* the UPDATE the flush sends for one changed object
FlushRow(row, change) ==
    [row EXCEPT !.summary = change.summary,
                !.context_data = IF change.tracked THEN change.context_data ELSE @]

\* first half: build the query and run it (query.all())
MarkQuery(s, email_id, summary_text, annotation) ==
    /\ op[s] = Idle
    /\ email_id # NoneVal \/ summary_text # NoneVal
    /\ LET ids == MarkSelection(email_id, summary_text)
       IN /\ cache' = [cache EXCEPT ![s] = Loaded(s, ids)]
          /\ op' = [op EXCEPT ![s] =
                       [kind |-> "mark_resolved", ids |-> ids, email_id |-> email_id,
                        summary_text |-> summary_text, annotation |-> annotation]]
    /\ UNCHANGED <<db, nextId, clock, orm, zone, obs>>

\* neither email_id nor summary_text: return 0
MarkNothing(s) ==
    /\ op[s] = Idle
    /\ obs' = Observe("mark_resolved", s,
                      [email_id |-> NoneVal, summary_text |-> NoneVal], <<>>, 0)
    /\ UNCHANGED <<db, nextId, clock, cache, op, orm, zone>>

\* second half: the loop, db.commit(), db.expire_all().  The flush updates
\* each changed object by primary key; when a row is gone the UPDATE matches
\* nothing, the flush raises and the transaction is rolled back.
MarkCommit(s) ==
    /\ op[s].kind = "mark_resolved"
    /\ LET targets == MarkTargets(s, op[s].ids)
           args == [email_id |-> op[s].email_id, summary_text |-> op[s].summary_text]
       IN IF targets \subseteq DOMAIN db
          THEN /\ db' = [id \in DOMAIN db |->
                            IF id \in targets
                            THEN FlushRow(db[id], MarkOne(cache[s][id], op[s].annotation))
                            ELSE db[id]]
               /\ obs' = Observe("mark_resolved", s, args, <<>>, Cardinality(targets))
          ELSE /\ db' = db
               /\ obs' = Observe("mark_resolved_raised", s, args, <<>>, 0)
    /\ cache' = [cache EXCEPT ![s] = NoCache]
    /\ op' = [op EXCEPT ![s] = Idle]
    /\ UNCHANGED <<nextId, clock, orm, zone>>

(***************************************************************************)
(* AgentMemoryService.annotate_memory                                      *)
(***************************************************************************)
\* the loop of lines 342-360 on one object of the session
AnnotateOne(mem, note, status) ==
    [summary |-> IF status = "resolved" /\ ~TextContains(mem.summary, "RESOLVED")
                 THEN PrefixResolved(mem.summary)
                 ELSE mem.summary,
     context_data |-> Annotated(mem.context_data, note, status),
     tracked |-> ContextTracked(mem)]

AnnotateMemory(s, email_id, task_id, annotation, status) ==
    /\ op[s] = Idle
    /\ \A id \in Range(RelatedOrder(email_id, task_id, NoneVal)) :
          Len(Annotations(db[id].context_data)) < MaxNotes
    /\ LET order == RelatedOrder(email_id, task_id, NoneVal)
           map == RelatedMap(s, order)
           after == [id \in DOMAIN db |->
                        IF id \in Range(order)
                        THEN FlushRow(db[id], AnnotateOne(map[id], annotation, status))
                        ELSE db[id]]
       IN /\ db' = after
          /\ obs' = Observe("annotate_memory", s,
                            [email_id |-> email_id, task_id |-> task_id, status |-> status],
                            Objects(after, order), Len(order))
    /\ cache' = [cache EXCEPT ![s] = NoCache]
    /\ UNCHANGED <<nextId, clock, op, orm, zone>>

(***************************************************************************)
(* AgentMemoryService.update_memory                                        *)
(***************************************************************************)
\* setattr(memory, field, value) for every field of `updates` the object
\* has; the flush writes the attributes whose value differs from the loaded
\* one
Updated(row, mem, updates) ==
    [f \in DOMAIN row |->
        IF f \in DOMAIN updates /\ mem[f] # updates[f] THEN updates[f] ELSE row[f]]

UpdateInputs ==
    { [summary |-> <<"Pedro", "shift">>],
      [context_data |-> EmptyDict],
      [key_findings |-> EmptyDict, unknown_field |-> <<>>] }

UpdateMemory(s, memory_id, updates) ==
    /\ op[s] = Idle
    /\ IF memory_id \in DOMAIN db
       THEN LET mem == Loaded(s, {memory_id})[memory_id]
                row == Updated(db[memory_id], mem, updates)
            IN /\ db' = [db EXCEPT ![memory_id] = row]
               /\ cache' = [cache EXCEPT ![s] = [id \in {memory_id} |-> row]]
               /\ obs' = Observe("update_memory", s, [memory_id |-> memory_id], <<row>>, 1)
       ELSE /\ UNCHANGED <<db, cache>>
            /\ obs' = Observe("update_memory", s, [memory_id |-> memory_id], <<>>, 0)
    /\ UNCHANGED <<nextId, clock, op, orm, zone>>

(***************************************************************************)
(* MemoryManager                                                           *)
(***************************************************************************)
\* the words of json.dumps(d) / of a JSON column cast to text
JsonWords(d) ==
    UNION { {k} \cup
            (IF k = "annotations"
             THEN UNION { {"timestamp", "note", "status", d[k][i].note, d[k][i].status} :
                          i \in 1..Len(d[k]) }
             ELSE Range(d[k])) : k \in DOMAIN d }

\* column::text ILIKE '%pattern%'
JsonILike(d, pattern) ==
    \/ pattern = ""
    \/ \E w \in JsonWords(d) : CsContains(Lower(w), Lower(pattern))

\* AgentMemory.is_resolved and the other columns of the migration are not
\* attributes of the class of models.py: with that class every method that
\* names them raises AttributeError before it touches a row
ManagerRaises(s, call) ==
    /\ op[s] = Idle
    /\ ~orm
    /\ obs' = Observe(call, s, [raised |-> "AttributeError"], <<>>, 0)
    /\ UNCHANGED <<db, nextId, clock, cache, op, orm, zone>>

\* the query of smart_resolve, lines 95-107
SmartSelection(topic) ==
    {id \in DOMAIN db :
        /\ db[id].is_resolved = FALSE
        /\ \/ ILike(db[id].summary, topic)
           \/ JsonILike(db[id].context_data, topic)
           \/ JsonILike(db[id].key_findings, topic)
           \/ JsonILike(db[id].related_entities, topic)}

\* lines 112-118
ShouldResolve(mem, context) ==
    \/ context = NoneVal
    \/ \E w \in Range(mem.summary) \cup JsonWords(mem.context_data) :
          CsContains(Lower(w), Lower(context))

\* the three assignments of lines 121-123 / 320-322, as the flush writes them
FlagResolved(row, mem, reason) ==
    Updated(row, mem, [is_resolved |-> TRUE, resolution_timestamp |-> UtcNow,
                       resolution_reason |-> reason])

SmartResolve(s, topic, context) ==
    /\ op[s] = Idle
    /\ orm
    /\ LET ids == SmartSelection(topic)
           map == Loaded(s, ids)
           chosen == {id \in ids : ShouldResolve(map[id], context)}
       IN /\ db' = [id \in DOMAIN db |->
                       IF id \in chosen
                       THEN FlagResolved(db[id], map[id], <<"Resolved:", topic>>)
                       ELSE db[id]]
          /\ obs' = Observe("smart_resolve", s, [topic |-> topic, context |-> context],
                            <<>>, Cardinality(chosen))
    /\ cache' = [cache EXCEPT ![s] = NoCache]
    /\ UNCHANGED <<nextId, clock, op, orm, zone>>

ResolutionPatterns ==
    << <<"covered", "Coverage has been arranged">>,
       <<"resolved", "Issue marked as resolved">>,
       <<"completed", "Task has been completed">>,
       <<"handled", "Situation has been handled">>,
       <<"done", "Action has been completed">>,
       <<"fixed", "Problem has been fixed">> >>

\* the query of apply_resolution_rules, lines 309-317, on table t
PatternSelection(t, pattern) ==
    {id \in DOMAIN t :
        /\ t[id].is_resolved = FALSE
        /\ \/ ILike(t[id].summary, pattern)
           \/ JsonILike(t[id].context_data, pattern)}

\* The loop over the patterns from pattern i on.  t is the table as the
\* session's transaction sees it: with autoflush the assignments made so
\* far are flushed before each query, without it (SessionLocal) the query
\* still sees the rows as they were.  Yields the ids flagged, the reason
\* last assigned to each, and resolved_count.
RECURSIVE ApplyRules(_, _, _, _)
ApplyRules(t, i, autoflush, acc) ==
    IF i > Len(ResolutionPatterns) THEN acc
    ELSE LET hits == PatternSelection(t, ResolutionPatterns[i][1])
             flagged == [id \in DOMAIN t |->
                            IF id \in hits THEN [t[id] EXCEPT !.is_resolved = TRUE]
                            ELSE t[id]]
         IN ApplyRules(IF autoflush THEN flagged ELSE t, i + 1, autoflush,
                       [ids |-> acc.ids \cup hits,
                        reason |-> [id \in DOMAIN acc.reason |->
                                       IF id \in hits THEN <<ResolutionPatterns[i][2]>>
                                       ELSE acc.reason[id]],
                        count |-> acc.count + Cardinality(hits)])

ApplyResolutionRules(s, autoflush) ==
    /\ op[s] = Idle
    /\ orm
    /\ LET out == ApplyRules(db, 1, autoflush,
                             [ids |-> {}, reason |-> [id \in DOMAIN db |-> <<>>],
                              count |-> 0])
           map == Loaded(s, out.ids)
       IN /\ db' = [id \in DOMAIN db |->
                       IF id \in out.ids
                       THEN FlagResolved(db[id], map[id], out.reason[id])
                       ELSE db[id]]
          /\ obs' = Observe("apply_resolution_rules", s, [autoflush |-> autoflush],
                            <<>>, out.count)
    /\ cache' = [cache EXCEPT ![s] = NoCache]
    /\ UNCHANGED <<nextId, clock, op, orm, zone>>

(***************************************************************************)
(***************************************************************************)
(* MemoryManager.get_active_issues                                         *)
(***************************************************************************)
\* limit(20), scaled down with MaxRecords so that it can bind
IssueLimit == 2

\* the query of lines 185-194, in its order
ActiveIssueOrder ==
    LET ids == {id \in DOMAIN db :
                   /\ db[id].is_resolved = FALSE
                   /\ \/ db[id].event_type = "email_analyzed"
                      \/ db[id].event_type = "task_created"
                      \/ \E w \in JsonWords(db[id].key_findings) : CsContains(w, "urgent")}
    IN Take(OrderDesc(db, ids), IssueLimit)

GetActiveIssues(s) ==
    /\ op[s] = Idle
    /\ orm
    /\ LET order == ActiveIssueOrder
           map == Loaded(s, Range(order))
       IN /\ cache' = [cache EXCEPT ![s] = map]
          /\ obs' = Observe("get_active_issues", s, EmptyDict,
                            [i \in 1..Len(order) |->
                                [id |-> map[order[i]].id,
                                 summary |-> map[order[i]].summary,
                                 type |-> map[order[i]].event_type,
                                 agent |-> map[order[i]].agent_type,
                                 urgent |-> \E w \in JsonWords(map[order[i]].key_findings) :
                                               CsContains(Lower(w), "urgent")]],
                            Len(order))
    /\ UNCHANGED <<db, nextId, clock, op, orm, zone>>

(* MemoryManager: retention                                                *)
(***************************************************************************)
RETENTION_POLICIES ==
    [resolved |-> Timedelta(3, 0),
     chat |-> Timedelta(7, 0),
     email_analyzed |-> Timedelta(14, 0),
     daily_brief |-> Timedelta(30, 0),
     urgent |-> Timedelta(7, 0)]

\* the objects `ids` leave the table (db.delete; db.commit)
Deleted(ids) == [id \in (DOMAIN db) \ ids |-> db[id]]

\* the query of expire_old_memories for one entry of the policies,
\* lines 150-159
ExpireSelection(event_type) ==
    {id \in DOMAIN db :
        /\ db[id].event_type = event_type
        /\ db[id].created_at < UtcNow - RETENTION_POLICIES[event_type]
        /\ db[id].is_resolved = FALSE}

\* stats['by_type']: the types with records to expire and their counts
ExpireByType ==
    [k \in {t \in DOMAIN RETENTION_POLICIES : ExpireSelection(t) # {}} |->
        Cardinality(ExpireSelection(k))]

\* ExpireOldMemories deleting whatever dry_run says
ExpireOldMemoriesEager(s, dry_run) ==
    /\ op[s] = Idle
    /\ orm
    /\ LET old == UNION {ExpireSelection(k) : k \in DOMAIN RETENTION_POLICIES}
       IN /\ db' = Deleted(old)
          /\ cache' = [cache EXCEPT ![s] = NoCache]
          /\ obs' = Observe("expire_old_memories", s, [dry_run |-> dry_run],
                            <<[expired |-> Cardinality(old), kept |-> 0,
                               by_type |-> ExpireByType]>>,
                            Cardinality(old))
    /\ UNCHANGED <<nextId, clock, op, orm, zone>>

\* stats['kept'] is set to 0 and never counted up
ExpireOldMemories(s, dry_run) ==
    /\ op[s] = Idle
    /\ orm
    /\ LET old == UNION {ExpireSelection(k) : k \in DOMAIN RETENTION_POLICIES}
       IN /\ db' = IF dry_run THEN db ELSE Deleted(old)
          /\ cache' = [cache EXCEPT ![s] = IF dry_run THEN Loaded(s, old) ELSE NoCache]
          /\ obs' = Observe("expire_old_memories", s, [dry_run |-> dry_run],
                            <<[expired |-> Cardinality(old), kept |-> 0,
                               by_type |-> ExpireByType]>>,
                            Cardinality(old))
    /\ UNCHANGED <<nextId, clock, op, orm, zone>>

\* the query of cleanup_resolved_memories, lines 48-50
CleanupSelection == {id \in DOMAIN db : db[id].is_resolved = TRUE}

\* lines 54-58: `if memory.updated_at:` and `age > retention`
PastRetention(mem) ==
    /\ mem.updated_at # NoTime
    /\ UtcNow - mem.updated_at > RETENTION_POLICIES["resolved"]

CleanupResolvedMemories(s, dry_run) ==
    /\ op[s] = Idle
    /\ orm
    /\ LET resolved_memories == CleanupSelection
           map == Loaded(s, resolved_memories)
           gone == {id \in resolved_memories : PastRetention(map[id])}
       IN /\ db' = IF dry_run THEN db ELSE Deleted(gone)
          /\ cache' = [cache EXCEPT ![s] = IF dry_run THEN map ELSE NoCache]
          /\ obs' = Observe("cleanup_resolved_memories", s, [dry_run |-> dry_run],
                            <<[deleted |-> Cardinality(gone),
                               kept |-> Cardinality(resolved_memories \ gone)]>>,
                            Cardinality(gone))
    /\ UNCHANGED <<nextId, clock, op, orm, zone>>

\* `abs(time_diff.total_seconds()) < 3600`, in minutes
DedupWindow == 60

\* GROUP BY summary HAVING count(id) > 1
DuplicateSummaries ==
    {db[id].summary : id \in {x \in DOMAIN db :
                                \E y \in DOMAIN db : y # x /\ db[y].summary = db[x].summary}}

\* SameSummary with the ORDER BY turned around: the oldest row comes first
SameSummaryOldestFirst(summary) ==
    OrderAsc(db, {id \in DOMAIN db : db[id].summary = summary})

\* the rows of one summary, newest first (lines 245-247)
SameSummary(summary) ==
    OrderDesc(db, {id \in DOMAIN db : db[id].summary = summary})

Abs(n) == IF n < 0 THEN 0 - n ELSE n

\* the loop over memories[1:], lines 250-258: the records of the group that
\* are deleted
DedupVictims(map, memories) ==
    {memories[i] : i \in {j \in 2..Len(memories) :
        /\ map[memories[1]].created_at # NoTime
        /\ map[memories[j]].created_at # NoTime
        /\ Abs(map[memories[1]].created_at - map[memories[j]].created_at) < DedupWindow}}

DeduplicateMemories(s, dry_run) ==
    /\ op[s] = Idle
    /\ LET groups == DuplicateSummaries
           map == Loaded(s, {id \in DOMAIN db : db[id].summary \in groups})
           victims == UNION {DedupVictims(map, SameSummary(g)) : g \in groups}
       IN /\ db' = IF dry_run THEN db ELSE Deleted(victims)
          /\ cache' = [cache EXCEPT ![s] = IF dry_run THEN map ELSE NoCache]
          /\ obs' = Observe("deduplicate_memories", s, [dry_run |-> dry_run],
                            <<Cardinality(victims), Cardinality(groups)>>,
                            Cardinality(victims))
    /\ UNCHANGED <<nextId, clock, op, orm, zone>>

\* time passes by d, up to the end of the period under study
Advance(d, until) ==
    /\ AllIdle
    /\ clock + d <= until
    /\ clock' = clock + d
    /\ obs' = NoObs
    /\ UNCHANGED <<db, nextId, cache, op, orm, zone>>

(***************************************************************************)
(* The workflows that write to the store: the triage worker                *)
(* (summarize_thread_advanced), the digest generator (daily_digest) and    *)
(* the chat handler (operations_chat).  Each calls record_event inside     *)
(* try / except Exception and then returns its own result.                 *)
(***************************************************************************)
\* what the database does with the commit of record_event: it stores the
\* row; it refuses the statement and stays reachable; it cannot be reached
\* from then on
Storage == {"up", "refused", "down"}

\* the messages a user sends to the chat: two corrections, one question, one
\* correction that names two topics
ChatMessages ==
    {<<"Pedro", "fixed">>, <<"payroll", "fixed">>, <<"payroll">>,
     <<"Pedro", "payroll", "fixed">>}

\* request.message.lower()
LowerText(text) == [i \in 1..Len(text) |-> Lower(text[i])]

\* correction_keywords, each a run of words
CorrectionKeywords ==
    {<<"was", "handled">>, <<"already", "done">>, <<"not", "urgent">>,
     <<"resolved">>, <<"completed">>, <<"fixed">>,
     <<"update", "the", "memory">>, <<"mark", "as", "done">>,
     <<"taken", "care", "of">>, <<"all", "set">>, <<"no", "longer", "needed">>,
     <<"false", "alarm">>, <<"ignore", "that">>, <<"scratch", "that">>,
     <<"never", "mind">>, <<"cancel">>, <<"disregard">>}

\* keyword in user_msg_lower
PhraseIn(text, phrase) ==
    \E i \in 1..(Len(text) - Len(phrase) + 1) :
        \A j \in 1..Len(phrase) : CsContains(text[i + j - 1], phrase[j])

\* any(keyword in user_msg_lower for keyword in correction_keywords)
IsCorrection(message) ==
    \E keyword \in CorrectionKeywords : PhraseIn(LowerText(message), keyword)

\* the topics list of lines 303-314, in the order of the appends
ChatTopics(message) ==
    LET has(w) == TextContains(LowerText(message), w)
        topic(found, name) == IF found THEN <<name>> ELSE <<>>
    IN topic(has("pedro"), "Pedro")
       \o topic(has("payroll") \/ has("pay"), "payroll")
       \o topic(has("schedule"), "schedule")
       \o topic(has("invoice"), "invoice")
       \o topic(has("hannah") \/ has("zimmerman"), "Hannah")
       \o topic(has("coverage") \/ has("call"), "coverage")

\* the arguments of the record_event call of lines 335-352; the "..." that
\* follows the message and the "[Updated n memories]" are words of their own
ChatInput(message, total_resolved) ==
    [agent_type |-> "operations_chat", event_type |-> "question_answered",
     summary |-> <<"Answered:">> \o message \o <<"...">>
                 \o (IF total_resolved > 0
                     THEN <<"[Updated", ToString(total_resolved), "memories]">>
                     ELSE <<>>),
     context_data |-> [user_question |-> message],
     key_findings |-> EmptyDict,
     session_id |-> NoneVal, email_id |-> NoneVal, task_id |-> NoneVal,
     model_used |-> "gpt-4o", confidence_score |-> 80]

TriageInput == CHOOSE in \in EventInputs : in.email_id = "e1" /\ in.session_id = NoneVal
DigestInput == CHOOSE in \in EventInputs : in.agent_type = "daily_brief"

\* the record_event call of a workflow and the except clause around it:
\* the row is stored, or the commit raises, record_event rolls back and the
\* workflow prints a warning
RecordCaught(s, in, storage) ==
    /\ op[s] = Idle
    /\ IF storage = "up"
       THEN /\ nextId <= MaxRecords
            /\ LET row == NewRow(nextId, in, DbNow)
               IN /\ db' = [id \in (DOMAIN db) \cup {nextId} |->
                                IF id = nextId THEN row ELSE db[id]]
                  /\ cache' = [cache EXCEPT ![s] = [id \in {nextId} |-> row]]
            /\ nextId' = nextId + 1
       ELSE /\ cache' = [cache EXCEPT ![s] = NoCache]
            /\ UNCHANGED <<db, nextId>>
    /\ UNCHANGED <<clock, op, orm, zone>>

\* ai_triage.py lines 506-561: the analysis is returned whatever happened
SummarizeThreadAdvanced(s, storage) ==
    /\ RecordCaught(s, TriageInput, storage)
    /\ obs' = Observe("summarize_thread_advanced", s, [storage |-> storage],
                      <<"analysis">>, 1)

\* smart_assistant.py lines 841-911
DailyDigest(s, storage) ==
    /\ RecordCaught(s, DigestInput, storage)
    /\ obs' = Observe("daily_digest", s, [storage |-> storage], <<"digest">>, 1)

\* the loop of lines 316-327 on table t: mark_resolved(summary_text=topic)
\* for each topic, each call on the rows the calls before it left, and the
\* sum of the counts.  The session of the request is its own, so every
\* object is loaded with the attributes of its row.
RECURSIVE ChatResolve(_, _, _)
ChatResolve(t, topics, annotation) ==
    IF topics = <<>> THEN [db |-> t, total_resolved |-> 0]
    ELSE LET cutoff == LocalNow - Timedelta(LookbackDays, 0)
             ids == {id \in DOMAIN t : /\ ILike(t[id].summary, Head(topics))
                                        /\ t[id].created_at >= cutoff}
             targets == {id \in ids : ~HasResolvedTag(t[id].summary)}
             after == [id \in DOMAIN t |->
                          IF id \in targets
                          THEN FlushRow(t[id], MarkOne(t[id], annotation))
                          ELSE t[id]]
             rest == ChatResolve(after, Tail(topics), annotation)
         IN [db |-> rest.db,
             total_resolved |-> Cardinality(targets) + rest.total_resolved]

\* operations_chat.py lines 154-376.  The user message and the assistant
\* message are added to the session and stay pending: the first commit after
\* them writes them, a rollback before any commit discards them.  On a
\* correction mark_resolved runs once per topic and commits each time;
\* record_event commits when the database stores the row and rolls back
\* when its commit raises.  After the except clause the handler commits
\* (nothing is pending after a rollback) and builds its answer from
\* session.id; the rollback has expired the ChatSession object, so reading
\* session.id reloads the row, and with the database out of reach that
\* raises inside the outer try, whose handler answers HTTP 500.
\* `chat` lists the chat_messages rows of the turn that are in the database
\* when the handler is left.
OperationsChat(s, message, storage) ==
    /\ op[s] = Idle
    /\ LET topics == IF IsCorrection(message) THEN ChatTopics(message) ELSE <<>>
           marked == ChatResolve(db, topics, <<"User", "update:">> \o message)
           in == ChatInput(message, marked.total_resolved)
           row == NewRow(nextId, in, DbNow)
           committed == topics # <<>> \/ storage = "up"
       IN /\ IF storage = "up"
             THEN /\ nextId <= MaxRecords
                  /\ db' = [id \in (DOMAIN db) \cup {nextId} |->
                               IF id = nextId THEN row ELSE marked.db[id]]
                  /\ nextId' = nextId + 1
             ELSE /\ db' = marked.db
                  /\ nextId' = nextId
          /\ obs' = [call |-> "operations_chat", s |-> s,
                     args |-> [message |-> message, storage |-> storage],
                     result |-> IF storage = "down" THEN <<"HTTP 500">>
                                ELSE <<"reply">>,
                     count |-> IF IsCorrection(message)
                               THEN marked.total_resolved ELSE 0,
                     chat |-> IF committed THEN <<"user", "assistant">> ELSE <<>>]
    /\ cache' = [cache EXCEPT ![s] = NoCache]
    /\ UNCHANGED <<clock, op, orm, zone>>

(***************************************************************************)
(* Specifications                                                          *)
(***************************************************************************)
\* Two sessions, their calls interleaved statement by statement: the
\* request handlers and the maintenance script share nothing but the table.
SharedInputs ==
    {in \in EventInputs : in.summary[1] = "Pedro"}

NoteOf(s) == IF s = "A" THEN "n1" ELSE "n2"

Next ==
    \/ \E s \in Sessions, in \in SharedInputs : RecordEvent(s, in, MaxShared)
    \/ \E s \in Sessions : GetRecentContext(s, NoneVal, 48, ContextLimit)
    \/ \E s \in Sessions : GetRelatedMemory(s, "e1", NoneVal, NoneVal)
    \/ \E s \in Sessions : SearchMemory(s, "PEDRO", NoneVal, ContextLimit)
    \/ \E s \in Sessions, inc \in BOOLEAN : GetCoordinationContext(s, 48, "text", inc)
    \/ \E s \in Sessions : MarkQuery(s, NoneVal, "PEDRO", NoteOf(s))
    \/ \E s \in Sessions : MarkCommit(s)
    \/ \E s \in Sessions, id \in 1..MaxShared : Collect(s, id)

\* the AgentMemory class as models.py declares it
InitModels == Init /\ orm = FALSE /\ zone = 0

Spec == InitModels /\ [][Next]_vars

\* A writer and a reader: session A records events while session B, which
\* may have been open and reading for a while, looks them up.
Limits == {1, ContextLimit}
EmailArgs == {NoneVal, "e1"}
TaskArgs == {NoneVal, "t1"}
DelegationArgs == {NoneVal, "d1"}

NextRW ==
    \/ \E in \in EventInputs : RecordEvent("A", in, MaxRecords)
    \/ \E a \in AgentFilters, h \in HoursArgs, l \in Limits : GetRecentContext("B", a, h, l)
    \/ \E e \in EmailArgs, t \in TaskArgs, d \in DelegationArgs :
          GetRelatedMemory("B", e, t, d)
    \/ \E d \in Jumps : Tick(d)
    \/ \E id \in 1..MaxRecords : Collect("B", id)

SpecRW == InitModels /\ [][NextRW]_vars

\* Two sessions whose calls do not overlap: a call returns before the next
\* one, of either session, is made.
Statuses == {"resolved", "note"}

NextSeq ==
    \/ \E s \in Sessions, in \in SharedInputs : AllIdle /\ RecordEvent(s, in, MaxShared)
    \/ \E s \in Sessions : AllIdle /\ MarkQuery(s, NoneVal, "PEDRO", NoteOf(s))
    \/ \E s \in Sessions : MarkCommit(s)
    \/ \E s \in Sessions : AllIdle /\ GetRelatedMemory(s, "e1", "t1", NoneVal)
    \/ \E s \in Sessions, id \in 1..MaxShared : AllIdle /\ Collect(s, id)

SpecSeq == InitModels /\ [][NextSeq]_vars

\* One session that records, resolves, annotates and edits.
NextEdit ==
    \/ \E in \in SharedInputs : RecordEvent("A", in, MaxShared)
    \/ \E e \in EmailArgs, topic \in {NoneVal, "PEDRO"}, note \in Notes :
          MarkQuery("A", e, topic, note)
    \/ MarkNothing("A")
    \/ MarkCommit("A")
    \/ \E e \in EmailArgs, t \in TaskArgs, note \in Notes, st \in Statuses :
          AnnotateMemory("A", e, t, note, st)
    \/ \E id \in 1..MaxShared, u \in UpdateInputs : UpdateMemory("A", id, u)

SpecEdit == InitModels /\ [][NextEdit]_vars

\* One session through the chat handler's cycle: events are recorded, the
\* context is built, a correction resolves a topic or an email thread, the
\* context is built again; days pass in between.
ContextHours == 48
Formats == {"text", "json"}

NextScenario ==
    \/ \E in \in EventInputs : RecordEvent("A", in, MaxRecords)
    \/ \E f \in Formats, inc \in BOOLEAN : GetCoordinationContext("A", ContextHours, f, inc)
    \/ \E e \in EmailArgs, topic \in {NoneVal} \cup Topics : MarkQuery("A", e, topic, "n1")
    \/ MarkNothing("A")
    \/ MarkCommit("A")
    \/ \E d \in Jumps : Tick(d)

SpecScenario == InitModels /\ [][NextScenario]_vars

\* Two request handlers, each with a session of its own that is new when
\* the request comes in, resolve at the same time.  The table holds what
\* earlier requests, their sessions closed since, have recorded.
Tables ==
    UNION { {[id \in 1..n |-> NewRow(id, ins[id], 0)] : ins \in [1..n -> EventInputs]} :
            n \in 1..MaxShared }

InitRace ==
    /\ db \in Tables
    /\ nextId = Cardinality(DOMAIN db) + 1
    /\ clock = 0
    /\ cache = [s \in Sessions |-> NoCache]
    /\ op = [s \in Sessions |-> Idle]
    /\ orm = FALSE
    /\ zone = 0
    /\ obs = NoObs

NextRace ==
    \/ \E s \in Sessions, e \in EmailArgs, topic \in {NoneVal} \cup Topics :
          MarkQuery(s, e, topic, NoteOf(s))
    \/ \E s \in Sessions : MarkCommit(s)

SpecRace == InitRace /\ [][NextRace]_vars

\* The maintenance script next to the service: MemoryManager's resolution
\* passes run on the table the service writes and build_context reads.
Contexts == {NoneVal, "covered"}
ManagerCalls == {"smart_resolve", "apply_resolution_rules"}

NextMgr ==
    \/ \E in \in EventInputs : RecordEvent("A", in, MaxShared)
    \/ \E topic \in Topics, c \in Contexts : SmartResolve("A", topic, c)
    \/ \E autoflush \in BOOLEAN : ApplyResolutionRules("A", autoflush)
    \/ \E call \in ManagerCalls : ManagerRaises("A", call)
    \/ \E topic \in Topics : MarkQuery("A", NoneVal, topic, "n1")
    \/ MarkCommit("A")
    \/ \E f \in Formats, inc \in BOOLEAN : GetCoordinationContext("A", ContextHours, f, inc)

SpecMgr == Init /\ [][NextMgr]_vars

\* The maintenance script's retention passes (memory_maintenance.py expire
\* and cleanup) over two weeks and more of records, on either class and on
\* either host clock.
RetentionInputs == {in \in EventInputs : in.summary[1] = "Pedro"}
RetentionJumps == {Timedelta(4, 0), Timedelta(9, 20)}
RetentionHorizon == Timedelta(18, 0)
RetentionCalls == {"expire_old_memories", "cleanup_resolved_memories"}

NextRetention ==
    \/ \E in \in RetentionInputs : RecordEvent("A", in, MaxShared)
    \/ MarkQuery("A", NoneVal, "PEDRO", "n1")
    \/ MarkCommit("A")
    \/ SmartResolve("A", "PEDRO", NoneVal)
    \/ \E dry_run \in BOOLEAN : ExpireOldMemories("A", dry_run)
    \/ \E dry_run \in BOOLEAN : CleanupResolvedMemories("A", dry_run)
    \/ \E call \in RetentionCalls : ManagerRaises("A", call)
    \/ \E d \in RetentionJumps : Advance(d, RetentionHorizon)

SpecRetention == Init /\ [][NextRetention]_vars

\* The dedupe command of the maintenance script on a table the triage worker
\* fills, minutes apart.
DedupInputs == {in \in EventInputs : in.agent_type = "triage"}
DedupJumps == {5, DedupWindow}
DedupHorizon == 70

NextDedup ==
    \/ \E in \in DedupInputs : RecordEvent("A", in, MaxRecords)
    \/ \E dry_run \in BOOLEAN : DeduplicateMemories("A", dry_run)
    \/ \E d \in DedupJumps : Advance(d, DedupHorizon)

SpecDedup == InitModels /\ [][NextDedup]_vars

\* The writers: record_event succeeding and failing, between resolutions and
\* reads of the same session.
NextWrite ==
    \/ \E in \in WriteInputs : RecordEvent("A", in, MaxRecords)
    \/ \E in \in WriteInputs : RecordEventFails("A", in)
    \/ MarkQuery("A", NoneVal, "PEDRO", "n1")
    \/ MarkCommit("A")
    \/ GetRecentContext("A", NoneVal, ContextHours, ContextLimit)
    \/ \E d \in Jumps : Tick(d)

SpecWrite == InitModels /\ [][NextWrite]_vars

\* The three workflows on one store, with the database up, refusing and out
\* of reach.
NextWorkflows ==
    \/ \E storage \in Storage : SummarizeThreadAdvanced("A", storage)
    \/ \E storage \in Storage : DailyDigest("A", storage)
    \/ \E storage \in Storage : OperationsChat("A", <<"payroll">>, storage)
    \/ \E d \in Jumps : Tick(d)

SpecWorkflows == InitModels /\ [][NextWorkflows]_vars

\* update_memory as a caller may use it: `updates` is any dict; the fields
\* of the docstring (summary, key_findings, context_data) and others
FieldUpdates ==
    UpdateInputs \cup {[confidence_score |-> 0, model_used |-> "edited"],
                       [created_at |-> 0]}

\* Every operation that keeps a record: resolving by text, annotating by
\* e-mail id, editing, and the dedupe pass.
NextFields ==
    \/ \E in \in SharedInputs : RecordEvent("A", in, MaxShared)
    \/ MarkQuery("A", NoneVal, "PEDRO", "n1")
    \/ MarkCommit("A")
    \/ \E st \in Statuses : AnnotateMemory("A", "e1", NoneVal, "n2", st)
    \/ \E id \in 1..MaxShared, u \in FieldUpdates : UpdateMemory("A", id, u)
    \/ DeduplicateMemories("A", FALSE)

SpecFields == InitModels /\ [][NextFields]_vars

\* The read path under every argument, in format and out, on a table that
\* is written and resolved in between, today and three days on.
ReadHours == {ContextHours, 96}
Queries == {"PEDRO", "pedro", "_"}
ReadJump == Timedelta(3, 0)

NextReads ==
    \/ \E in \in EventInputs : RecordEvent("A", in, MaxRecords)
    \/ MarkQuery("A", NoneVal, "PEDRO", "n1")
    \/ MarkCommit("A")
    \/ \E a \in AgentFilters : GetRecentContext("A", a, ContextHours, ContextLimit)
    \/ \E e \in EmailArgs : GetRelatedMemory("A", e, "t1", NoneVal)
    \/ \E q \in Queries, a \in AgentFilters, l \in Limits : SearchMemory("A", q, a, l)
    \/ \E h \in ReadHours, f \in Formats, inc \in BOOLEAN :
          GetCoordinationContext("A", h, f, inc)
    \/ Advance(ReadJump, ReadJump)

SpecReads == InitModels /\ [][NextReads]_vars

\* Calls with nothing to look for: an empty query text, no topic and no
\* entity, among ordinary calls.
NextEmpty ==
    \/ \E in \in EventInputs : RecordEvent("A", in, MaxRecords)
    \/ \E q \in {"", "pedro"}, a \in AgentFilters, l \in Limits : SearchMemory("A", q, a, l)
    \/ MarkNothing("A")
    \/ MarkQuery("A", NoneVal, "PEDRO", "n1")
    \/ MarkCommit("A")
    \/ Advance(ReadJump, ReadJump)

SpecEmpty == InitModels /\ [][NextEmpty]_vars

\* smart_resolve with and without a context, on records the chat handler
\* may have resolved before.
NextSmart ==
    \/ \E in \in EventInputs : RecordEvent("A", in, MaxShared)
    \/ \E topic \in Topics, c \in {NoneVal, "covered", "shift"} : SmartResolve("A", topic, c)
    \/ ManagerRaises("A", "smart_resolve")
    \/ MarkQuery("A", NoneVal, "PEDRO", "n1")
    \/ MarkCommit("A")

SpecSmart == Init /\ [][NextSmart]_vars

\* The status command of the maintenance script on a table in which the
\* chat handler and smart_resolve have resolved records.
NextIssues ==
    \/ \E in \in EventInputs : RecordEvent("A", in, MaxRecords)
    \/ MarkQuery("A", NoneVal, "PEDRO", "n1")
    \/ MarkCommit("A")
    \/ SmartResolve("A", "payroll", NoneVal)
    \/ GetActiveIssues("A")
    \/ ManagerRaises("A", "get_active_issues")
    \/ Advance(ReadJump, ReadJump)

SpecIssues == Init /\ [][NextIssues]_vars

\* The chat handler on a store the triage worker and the digest generator
\* write to, with the digest read between the turns.
NextChat ==
    \/ \E in \in EventInputs : RecordEvent("A", in, MaxRecords)
    \/ \E message \in ChatMessages, storage \in Storage :
           OperationsChat("A", message, storage)
    \/ GetCoordinationContext("A", ContextHours, "text", FALSE)

SpecChat == InitModels /\ [][NextChat]_vars

\* More records in the window than get_coordination_context fetches: the
\* producers write, a topic is resolved, the digest is built.
MaxCrowd == 4

NextCrowd ==
    \/ \E in \in EventInputs : RecordEvent("A", in, MaxCrowd)
    \/ MarkQuery("A", NoneVal, "PEDRO", "n1")
    \/ MarkCommit("A")
    \/ \E f \in Formats : GetCoordinationContext("A", ContextHours, f, FALSE)

SpecCrowd == InitModels /\ [][NextCrowd]_vars

\* The three commands of the maintenance script, each as a dry run and as a
\* real run, on a table with duplicates, resolved records and records past
\* their retention.
DryMinutes == 5
DryDays == Timedelta(15, 0)

NextDry ==
    \/ \E in \in DedupInputs : RecordEvent("A", in, MaxRecords)
    \/ SmartResolve("A", "payroll", NoneVal)
    \/ \E dry_run \in BOOLEAN : ExpireOldMemories("A", dry_run)
    \/ \E dry_run \in BOOLEAN : CleanupResolvedMemories("A", dry_run)
    \/ \E dry_run \in BOOLEAN : DeduplicateMemories("A", dry_run)
    \/ \E call \in RetentionCalls \cup {"smart_resolve"} : ManagerRaises("A", call)
    \/ Advance(DryMinutes, 2 * DryMinutes)
    \/ Advance(DryDays, DryDays + 2 * DryMinutes)

\* either class, a host on UTC
InitDry == Init /\ zone = 0

SpecDry == InitDry /\ [][NextDry]_vars

(***************************************************************************)
(* Properties                                                              *)
(***************************************************************************)
ListCalls == {"recent", "related", "search"}

\* the record as the table holds it now is Resolved, by its summary
ResolvedInDb(id) == HasResolvedTag(db[id].summary)

\* the objects or digest items the last read handed out
Handed ==
    IF obs.call \in ListCalls THEN obs.result
    ELSE IF obs.call = "build_context"
         THEN SelectSeq(obs.result, LAMBDA line : line.kind = "item")
         ELSE <<>>

\* C1: stale-cache freedom.  Whatever a session has loaded before, a record
\* that is Resolved in the table when recent, related, search or
\* build_context runs is returned or rendered Resolved (with the [RESOLVED]
\* summary), never in a cached Active state.
C1_StaleCacheFreedom ==
    \A i \in 1..Len(Handed) :
        ResolvedInDb(Handed[i].id) => HasResolvedTag(Handed[i].summary)


\* created_at lies in the window of a recent() call made now
InWindow(id, hours) == db[id].created_at >= LocalNow - Timedelta(0, hours)

\* the record passes the producer filter of the call
ForProducer(id, agent_type) == agent_type = NoneVal \/ db[id].agent_type = agent_type

\* the records of the window (and producer) that are newer than `id`
Newer(id, agent_type, hours) ==
    {x \in DOMAIN db :
        /\ InWindow(x, hours) /\ ForProducer(x, agent_type)
        /\ \/ db[x].created_at > db[id].created_at
           \/ db[x].created_at = db[id].created_at /\ x > id}

\* the record carries one of the entity refs of a related() call
CarriesRef(id, args) ==
    \/ args.email_id # NoneVal /\ db[id].email_id = args.email_id
    \/ args.task_id # NoneVal /\ db[id].task_id = args.task_id
    \/ args.delegation_id # NoneVal /\ db[id].delegation_id = args.delegation_id

OldestFirst(list) ==
    \A i, j \in 1..Len(list) : i < j => list[i].created_at <= list[j].created_at

\* the entity refs a related() call can name
RefArgs == {NoneVal, "e1", "t1", "d1", "run1"}
RunIds == {"run1"}

\* related(), for the email, task and delegation refs it takes, returns
\* exactly the records that carry one of the refs given, oldest first, and
\* the empty list when no ref is given
ExactMembership ==
    obs.call = "related" =>
        /\ IdsOf(obs.result) = {id \in DOMAIN db : CarriesRef(id, obs.args)}
        /\ Len(obs.result) = Cardinality(IdsOf(obs.result))
        /\ OldestFirst(obs.result)
        /\ (obs.args.email_id = NoneVal /\ obs.args.task_id = NoneVal
              /\ obs.args.delegation_id = NoneVal) => obs.result = <<>>

\* some call of related() yields exactly the records of run `run`
RunTimelineReachable(run) ==
    \E e \in RefArgs, t \in RefArgs, d \in RefArgs :
        Range(RelatedOrder(e, t, d)) = {id \in DOMAIN db : db[id].session_id = run}

MarkReturns(s) == op[s].kind = "mark_resolved" /\ op'[s].kind = "idle"

\* the arguments of the mark_resolved call session s is in
MarkArgs(s) == [email_id |-> op[s].email_id, summary_text |-> op[s].summary_text]

\* the annotations of a row that record a resolution
ResolveNotes(row) ==
    SelectSeq(Annotations(row.context_data), LAMBDA a : a.status = "resolved")

\* C4: resolution is one-way.  Whatever operation runs on the store, a
\* record that is Resolved stays Resolved for as long as it exists: the only
\* transitions are Active to Resolved and deletion.
C4_OneWay ==
    [][\A id \in DOMAIN db :
          (ResolvedInDb(id) /\ id \in DOMAIN db') => ResolvedInDb(id)']_vars

\* C5: idempotent resolution.  When mark_resolved is called twice in a row
\* with the same topic and nothing else happens in between, the second call
\* returns 0; and no summary ever holds more than one [RESOLVED] prefix.
C5_Idempotent ==
    /\ [][\A s \in Sessions :
             ( /\ MarkReturns(s)
               /\ obs.call = "mark_resolved"
               /\ obs.args = MarkArgs(s)
               /\ obs'.call = "mark_resolved" ) => obs'.count = 0]_vars
    /\ [](\A id \in DOMAIN db : TagCount(db[id].summary) <= 1)

\* C6: annotation monotonicity.  The annotations list of a record never
\* gets shorter, and a record that has been resolved, by however many
\* resolve operations (mark_resolved or annotate_memory with status
\* resolved), carries exactly one annotation of a resolution.
C6_AnnotationMonotonicity ==
    /\ [][\A id \in DOMAIN db :
             id \in DOMAIN db' =>
                 Len(Annotations(db'[id].context_data))
                     >= Len(Annotations(db[id].context_data))]_vars
    /\ [](\A id \in DOMAIN db :
             ResolvedInDb(id) => Len(ResolveNotes(db[id])) = 1)

\* the Active records of the context window whose summary contains the topic
TopicSet(hours, topic) ==
    {id \in DOMAIN db :
        InWindow(id, hours) /\ ~ResolvedInDb(id) /\ ILike(db[id].summary, topic)}

\* the Resolved records of the context window whose summary contains the topic
TopicResolved(hours, topic) ==
    {id \in DOMAIN db :
        InWindow(id, hours) /\ ResolvedInDb(id) /\ ILike(db[id].summary, topic)}

\* fewer than the per-producer budget of records of S for every producer
FewPerProducer(S) ==
    \A id \in S :
        Cardinality({j \in S : db[j].agent_type = db[id].agent_type}) < TopPerAgent

\* the digest's item of record id
ItemOf(digest, id) ==
    CHOOSE line \in Range(digest) : line.kind = "item" /\ line.id = id

\* the last call is build_context with this include_resolved
Built(inc) == obs.call = "build_context" /\ obs.args.include_resolved = inc

\* the Active records mark_resolved is to change for the arguments args:
\* they match the criterion and were created within the lookback
ToResolve(args) ==
    {id \in DOMAIN db :
        /\ ~ResolvedInDb(id)
        /\ IF args.email_id # NoneVal THEN db[id].email_id = args.email_id
           ELSE ILike(db[id].summary, args.summary_text)
        /\ db[id].created_at >= LocalNow - Timedelta(LookbackDays, 0)}

InLimit(id, hours) ==
    InWindow(id, hours) /\ Cardinality(Newer(id, NoneVal, hours)) < ContextLimit

\* record id passes the limit and the filter of build_context
Listed(id, hours, inc) == InLimit(id, hours) /\ (inc \/ ~ResolvedInDb(id))

\* the listed records of the producer of id that come before it
Ahead(id, hours, inc) ==
    {j \in Newer(id, db[id].agent_type, hours) : Listed(j, hours, inc)}

\* the records a build_context call with arguments args is to show
Expected(args) ==
    {id \in DOMAIN db :
        /\ Listed(id, args.hours, args.include_resolved)
        /\ \/ args.format = "json"
           \/ Cardinality(Ahead(id, args.hours, args.include_resolved)) < TopPerAgent}

C7_ResolvePostcondition ==
    [][\A s \in Sessions :
          MarkReturns(s) =>
              /\ obs'.call = "mark_resolved"
              /\ obs'.count = Cardinality(ToResolve(MarkArgs(s)))
              /\ \A id \in DOMAIN db :
                    IF id \in ToResolve(MarkArgs(s))
                    THEN /\ db'[id].summary = <<ResolvedTag>> \o db[id].summary
                         /\ Len(Annotations(db'[id].context_data))
                               = Len(Annotations(db[id].context_data)) + 1
                         /\ Annotations(db'[id].context_data)[
                                Len(Annotations(db'[id].context_data))].note
                               = op[s].annotation
                    ELSE db'[id] = db[id]]_vars

\* sequence a is an initial part of sequence b
IsPrefix(a, b) == Len(a) <= Len(b) /\ SubSeq(b, 1, Len(a)) = a

\* C8: no read-modify-write race in mark_resolved.  However two calls from
\* two sessions interleave, each call returns the number of records it
\* turned from Active to Resolved (so that a record both calls match is in
\* the count of exactly one), no annotation once written is lost, and no
\* record ends with more than one [RESOLVED] prefix or more than one
\* annotation.
C8_NoRace ==
    /\ [][\A s \in Sessions :
             MarkReturns(s) =>
                 /\ obs'.call = "mark_resolved"
                 /\ obs'.count =
                       Cardinality({id \in DOMAIN db :
                                       ~ResolvedInDb(id) /\ ResolvedInDb(id)'})]_vars
    /\ [][\A id \in DOMAIN db :
             id \in DOMAIN db' =>
                 IsPrefix(Annotations(db[id].context_data),
                          Annotations(db'[id].context_data))]_vars
    /\ [](\A id \in DOMAIN db :
             /\ TagCount(db[id].summary) <= 1
             /\ Len(Annotations(db[id].context_data)) <= 1)

\* the resolution state of the record: the [RESOLVED] mark of mark_resolved
\* and annotate_memory, or the is_resolved flag of MemoryManager
ResolvedState(id) == ResolvedInDb(id) \/ db[id].is_resolved

Removed == (DOMAIN db) \ (DOMAIN db')

\* time since the record was created, on the clock that stamped created_at
Age(row) == DbNow - row.created_at

SinceResolution(row) ==
    IF row.resolution_timestamp # NoTime THEN UtcNow - row.resolution_timestamp
    ELSE LET notes == Annotations(row.context_data)
         IN IF notes # <<>> THEN LocalNow - notes[Len(notes)].timestamp ELSE NoTime

PastGrace(id) ==
    ResolvedState(id) /\ SinceResolution(db[id]) > RETENTION_POLICIES["resolved"]

\* C14: resolved-cleanup grace period.  A cleanup_resolved_memories run
\* (not a dry run) deletes exactly the records that are Resolved and were
\* resolved more than the grace period of 3 days ago: no Active record, no
\* record resolved more recently, and every Resolved record past the grace
\* period, whichever resolve operation resolved it.
C14_CleanupGrace ==
    [][obs'.call = "cleanup_resolved_memories" /\ obs'.args # [dry_run |-> TRUE] =>
          /\ \A id \in Removed : PastGrace(id)
          /\ \A id \in DOMAIN db : PastGrace(id) => id \in Removed]_vars

\* the records of table t that carry this summary
Group(t, summary) == {id \in DOMAIN t : t[id].summary = summary}

\* the newest record of a set of records: the latest created_at and, among
\* records stamped within the same minute, the one inserted last
NewestOf(ids) ==
    CHOOSE x \in ids : \A y \in ids :
        \/ db[x].created_at > db[y].created_at
        \/ db[x].created_at = db[y].created_at /\ x >= y

SummariesOf(t) == {t[id].summary : id \in DOMAIN t}

\* three records with one summary, created 5 minutes apart
FiveMinutesApart ==
    /\ DOMAIN db = {1, 2, 3}
    /\ db[1].summary = db[2].summary /\ db[2].summary = db[3].summary
    /\ db[2].created_at = db[1].created_at + 5
    /\ db[3].created_at = db[2].created_at + 5

\* C13: dedup safety.  deduplicate_memories never deletes the newest record
\* of a group of records with identical summary, so every summary present
\* before the call is present after it; on three identical-summary records
\* created 5 minutes apart it counts 2 duplicates and, unless it is a dry
\* run, removes exactly the two older ones.
C13_DedupSafety ==
    [][obs'.call = "deduplicate_memories" =>
          /\ \A id \in DOMAIN db : id = NewestOf(Group(db, db[id].summary)) => id \in DOMAIN db'
          /\ SummariesOf(db') = SummariesOf(db)
          /\ FiveMinutesApart =>
                /\ obs'.count = 2
                /\ obs'.args.dry_run = FALSE => Removed = {1, 2}]_vars

\* a dedupe run has removed two duplicates and left the newest record
C13_Witness ==
    /\ obs.call = "deduplicate_memories"
    /\ obs.args.dry_run = FALSE
    /\ obs.count = 2
    /\ DOMAIN db = {3}
    /\ db[3].created_at = 10

\* the columns record_event takes from its arguments
GivenFields ==
    {"agent_type", "event_type", "summary", "context_data", "key_findings",
     "session_id", "email_id", "task_id", "model_used", "confidence_score"}

\* the row is Active: resolved neither by its summary nor by is_resolved
ActiveRow(row) == ~HasResolvedTag(row.summary) /\ ~row.is_resolved

\* the step is a record_event call that returned a record
RecordReturns == obs'.call = "record_event" /\ obs'.count = 1 /\ obs' # obs

\* the step is a record_event call that raised
RecordRaises == obs'.call = "record_event" /\ obs'.count = 0

\* C15: record_event is all-or-nothing.  A call that returns has added
\* exactly one record, under an id never used before, Active, carrying the
\* given fields, stored as returned, and has changed no other record; a call
\* whose commit fails leaves the table as it was.
C15_AllOrNothing ==
    [][/\ RecordReturns =>
            /\ DOMAIN db' = (DOMAIN db) \cup {nextId}
            /\ nextId \notin DOMAIN db
            /\ nextId' > nextId
            /\ \A id \in DOMAIN db : db'[id] = db[id]
            /\ \A f \in GivenFields : db'[nextId][f] = obs'.args[f]
            /\ obs'.result = <<db'[nextId]>>
            /\ ActiveRow(db'[nextId])
       /\ RecordRaises => db' = db]_vars

\* what each workflow owes its caller
PrimaryResult ==
    [summarize_thread_advanced |-> "analysis",
     daily_digest |-> "digest",
     operations_chat |-> "reply"]

\* C16: a failed memory write never aborts the caller's primary workflow.
\* Whether record_event stored its row or raised, the triage worker, the
\* digest generator and the chat handler return their primary result.
C16_WorkflowSurvives ==
    obs.call \in DOMAIN PrimaryResult => obs.result = <<PrimaryResult[obs.call]>>

\* id, created_at, findings, produced_by_model, confidence
WriteOnce == {"id", "created_at", "key_findings", "model_used", "confidence_score"}

\* C17: write-once fields.  No operation changes the id, created_at,
\* key_findings, model_used or confidence_score of a record that it keeps.
C17_WriteOnce ==
    [][\A id \in (DOMAIN db) \cap (DOMAIN db') :
          \A f \in WriteOnce : db'[id][f] = db[id][f]]_vars

ReadCalls == ListCalls \cup {"build_context"}

\* C18: the read path is pure.  A step in which recent, related, search or
\* build_context runs, with whatever arguments and format, leaves the table
\* as it was: no record is created, modified or deleted.
C18_ReadPure ==
    [][obs'.call \in ReadCalls => db' = db /\ nextId' = nextId]_vars

\* each of the four reads has returned records of a table that holds
\* Resolved and Active records, the digest in the structured format
C18_Witness ==
    /\ obs.call = "build_context"
    /\ obs.args.format = "json"
    /\ obs.count = MaxRecords
    /\ \E id \in DOMAIN db : ResolvedInDb(id)
    /\ \E id \in DOMAIN db : ~ResolvedInDb(id)
    /\ clock > 0

\* the producer of the record an item of the digest stands for
ProducerOf(item) == db[item.id].agent_type

\* no producer has more than TopPerAgent items
WithinBudget(items) ==
    \A i \in 1..Len(items) :
        Cardinality({j \in 1..Len(items) : ProducerOf(items[j]) = ProducerOf(items[i])})
            <= TopPerAgent

\* the items of a producer stand together
Grouped(items) ==
    \A i, k \in 1..Len(items) :
        i < k /\ ProducerOf(items[i]) = ProducerOf(items[k]) =>
            \A j \in i..k : ProducerOf(items[j]) = ProducerOf(items[i])

\* the items of a producer run from its newest record to older ones
NewestFirst(items) ==
    \A i, k \in 1..Len(items) :
        i < k /\ ProducerOf(items[i]) = ProducerOf(items[k]) =>
            \/ db[items[i].id].created_at > db[items[k].id].created_at
            \/ /\ db[items[i].id].created_at = db[items[k].id].created_at
               /\ items[i].id > items[k].id

\* no record of the producer that build_context lists is newer than a
\* record shown and itself left out
NewestShown(items, args) ==
    \A i \in 1..Len(items) :
        Ahead(items[i].id, args.hours, args.include_resolved) \subseteq IdsOf(items)

Flat(items) ==
    \A i, k \in 1..Len(items) :
        i < k =>
            \/ db[items[i].id].created_at > db[items[k].id].created_at
            \/ /\ db[items[i].id].created_at = db[items[k].id].created_at
               /\ items[i].id > items[k].id

ContainsNoCase(text, q) ==
    \/ q = ""
    \/ \E i \in 1..Len(text) : CsContains(Lower(text[i]), Lower(q))

\* the records search is to consider for the arguments args
Matching(args) ==
    {id \in DOMAIN db :
        /\ ContainsNoCase(db[id].summary, args.query_text)
        /\ args.agent_type # NoneVal => db[id].agent_type = args.agent_type}

\* the ids of a list of objects, in its order
IdSeq(seq) == [i \in 1..Len(seq) |-> seq[i].id]

\* C20: case-insensitive search.  For every query text q, search(q,
\* producer, limit) returns the newest (at most limit) records whose summary
\* contains q as a substring ignoring letter case, of the producer when one
\* is given, newest first.
C20_Search ==
    obs.call = "search" =>
        IdSeq(obs.result) = Take(OrderDesc(db, Matching(obs.args)), obs.args.limit)

\* C21: empty or invalid input is a no-op.  search with an empty query text
\* returns the empty list whatever the table holds, and mark_resolved with
\* neither e-mail id nor summary text returns 0; neither changes a record.
C21_EmptyInputNoOp ==
    [][/\ obs'.call = "search" /\ obs'.args.query_text = "" =>
             obs'.result = <<>> /\ db' = db
       /\ /\ obs'.call = "mark_resolved"
          /\ obs'.args.email_id = NoneVal
          /\ obs'.args.summary_text = NoneVal
          => obs'.count = 0 /\ db' = db]_vars

\* the records a step changes
Changed == {id \in (DOMAIN db) \cap (DOMAIN db') : db'[id] # db[id]}

\* the record mentions the topic in its summary, context, findings or
\* entities
MentionsTopic(row, topic) ==
    \/ ContainsNoCase(row.summary, topic)
    \/ \E w \in JsonWords(row.context_data) \cup JsonWords(row.key_findings)
              \cup JsonWords(row.related_entities) : CsContains(Lower(w), Lower(topic))

\* the filter appears in the record's serialized context
InContext(row, filter) ==
    \E w \in JsonWords(row.context_data) : CsContains(Lower(w), Lower(filter))

\* the step is a smart_resolve call that ran its query
SmartReturns ==
    /\ obs'.call = "smart_resolve"
    /\ DOMAIN obs'.args = {"topic", "context"}
    /\ op' = op

IssuesListed == obs.call = "get_active_issues" /\ obs.args = EmptyDict

C24_EncodingsAgree ==
    \A id \in DOMAIN db :
        (db[id].summary # <<>> /\ Head(db[id].summary) = ResolvedTag) <=> db[id].is_resolved

\* C25: dedup completeness.  After deduplicate_memories has run (not as a
\* dry run) no two records with identical summary are left whose created_at
\* values are less than the window of one hour apart.
C25_DedupComplete ==
    [][obs'.call = "deduplicate_memories" /\ obs'.args.dry_run = FALSE =>
          \A a, b \in DOMAIN db' :
              a # b /\ db'[a].summary = db'[b].summary =>
                  Abs(db'[a].created_at - db'[b].created_at) >= DedupWindow]_vars

\* the call o is a chat turn that ran mark_resolved for topic T and then
\* recorded the turn
TurnResolved(o, T) ==
    /\ o.call = "operations_chat"
    /\ o.args.storage = "up"
    /\ IsCorrection(o.args.message)
    /\ T \in Range(ChatTopics(o.args.message))

\* the digest read right after the turn shows no Active record that
\* mentions a topic of the turn
DigestAfterTurn ==
    obs.call = "operations_chat" /\ obs'.call = "build_context" =>
        \A id \in Shown(obs'.result), T \in {"Pedro", "payroll"} :
            ~(TurnResolved(obs, T) /\ ActiveRow(db'[id]) /\ ILike(db'[id].summary, T))

\* the same correction sent again right after the turn resolves nothing
SecondCorrection ==
    (/\ obs.call = "operations_chat"
     /\ obs'.call = "operations_chat"
     /\ obs'.args.message = obs.args.message
     /\ \E T \in {"Pedro", "payroll"} : TurnResolved(obs, T))
        => obs'.count = 0

\* C26: a chat correction removes the topic from active context.  After a
\* chat turn that ran mark_resolved for topic T and recorded the turn, the
\* next get_coordination_context(include_resolved=False) shows no Active
\* record whose summary mentions T, and the same correction sent a second
\* time resolves 0 records.
C26_ChatCorrection == [][DigestAfterTurn /\ SecondCorrection]_vars

\* the Active records of the window and of the producer of id that are
\* newer than id
NewerActive(id, hours) ==
    {j \in Newer(id, db[id].agent_type, hours) : ActiveRow(db[j])}

\* C27: Active records are not crowded out of the digest.  Every Active
\* record created inside the window that is among the TopPerAgent newest
\* Active records of its producer appears in
\* get_coordination_context(include_resolved=False), however many Resolved
\* records or records of other producers the window holds.
C27_NotCrowdedOut ==
    obs.call = "build_context" /\ ~obs.args.include_resolved =>
        \A id \in DOMAIN db :
            (/\ ActiveRow(db[id])
             /\ InWindow(id, obs.args.hours)
             /\ Cardinality(NewerActive(id, obs.args.hours)) < TopPerAgent)
                => id \in Shown(obs.result)

\* the records the step flags as resolved
NewlyFlagged == {id \in DOMAIN db : ~db[id].is_resolved /\ db'[id].is_resolved}

\* the step is an apply_resolution_rules call that returned
RulesReturn == orm /\ obs'.call = "apply_resolution_rules" /\ op' = op

CountOnceWhenFlushed ==
    [][RulesReturn /\ obs'.args.autoflush => obs'.count = Cardinality(NewlyFlagged)]_vars

\* C29: a failed memory write in the chat handler loses no chat history.
\* When record_event fails during a chat turn and the handler returns its
\* response, the user message and the assistant message of the turn are in
\* the chat history.
C29_ChatHistoryKept ==
    (/\ obs.call = "operations_chat"
     /\ obs.args.storage # "up"
     /\ obs.result = <<"reply">>)
        => obs.chat = <<"user", "assistant">>

\* the commands that take dry_run
DryCalls == {"cleanup_resolved_memories", "expire_old_memories", "deduplicate_memories"}

\* the call o returned from a run with dry_run = flag
RunOf(o, flag) == o.call \in DryCalls /\ o.args = [dry_run |-> flag]

\* a dry run leaves the table as it is
DryRunFrame == RunOf(obs', TRUE) => db' = db

\* the real run that follows the dry run of the same command, on the table
\* and at the time the dry run saw, returns the statistics the dry run
\* returned
DryRunPredicts ==
    RunOf(obs, TRUE) /\ RunOf(obs', FALSE) /\ obs'.call = obs.call =>
        obs'.result = obs.result /\ obs'.count = obs.count

\* C30: dry run changes nothing and predicts the real run.
\* cleanup_resolved_memories, expire_old_memories and deduplicate_memories
\* called with dry_run=True leave every record unchanged and undeleted, and
\* return the statistics that the same call with dry_run=False returns from
\* the same table.
C30_DryRun == [][DryRunFrame /\ DryRunPredicts]_vars

\* a dry run has reported records to remove and all records ever written
\* are still in the table
C30_Witness ==
    /\ RunOf(obs, TRUE)
    /\ obs.count > 0
    /\ Cardinality(DOMAIN db) = MaxRecords

====
